---- MODULE Spec2Model ----
(***************************************************************************)
(* Kronecker product lazy tensors                                          *)
(* (gpytorch/lazy/kronecker_product_lazy_tensor.py).                       *)
(*                                                                         *)
(* A tensor is a record [shape, data]: data is the row-major (contiguous)  *)
(* layout of the entries, shape the sequence of dimension sizes.  Entries  *)
(* are integers and all arithmetic is exact; invertible factors are        *)
(* unimodular, positive definite factors have integer Cholesky factors.    *)
(***************************************************************************)
EXTENDS Integers, Sequences, FiniteSets, TLC

VARIABLES
    self,      \* the composite the client holds (NoObj before construction)
    cache,     \* self's memoized values: cache name -> stored value
    computed,  \* how often each memoized method's body has run on self
    call,      \* the last call: its name and arguments
    result,    \* what the last call returned (or raised)
    trace,     \* the solves the last call delegated to, in call order
    pc         \* "idle": ready for a call; "done": a call has returned

vars == <<self, cache, computed, call, result, trace, pc>>

---------------------------------------------------------------------------
(* Bounds of the model. *)

\* The number of factors of a composite.
MaxFactors == 3

\* The number of rows, and of columns, of a composite's dense equivalent.
MaxSize == 12

---------------------------------------------------------------------------
(* Tensors: torch's size arithmetic, view / reshape, permute, expand and   *)
(* the batched matrix product, on contiguous row-major data.  Offsets into *)
(* data are 0-based; data itself is a sequence.                            *)

RECURSIVE _prod(_)
_prod(iterable) ==
    IF iterable = <<>> THEN 1 ELSE Head(iterable) * _prod(Tail(iterable))

\* The sequence s with every entry evaluated.
Seq1(s) == SubSeq(s, 1, Len(s))

Tensor(shape, data) == [shape |-> Seq1(shape), data |-> Seq1(data)]

Ndim(t) == Len(t.shape)

\* t.size(dim) for a negative dim, counted from the last dimension.
TSize(t, dim) == t.shape[Len(t.shape) + 1 + dim]

BatchOf(shape) == SubSeq(shape, 1, Len(shape) - 2)

TailOf(shape) == SubSeq(shape, Len(shape) - 1, Len(shape))

\* The strides of a contiguous tensor of this shape.
Strides(shape) ==
    Seq1([d \in 1..Len(shape) |-> _prod(SubSeq(shape, d + 1, Len(shape)))])

RECURSIVE SumTo(_, _)
SumTo(n, f) == IF n = 0 THEN 0 ELSE f[n] + SumTo(n - 1, f)

\* The offset of the entry with the (0-based) index idx.
Offset(idx, shape) ==
    LET str == Strides(shape)
    IN  SumTo(Len(shape), [d \in 1..Len(shape) |-> idx[d] * str[d]])

At(t, idx) == t.data[Offset(idx, t.shape) + 1]

\* A shape in which one entry may be -1: that entry is inferred.
InferShape(numel, shape) ==
    LET known == _prod([d \in 1..Len(shape) |->
                          IF shape[d] = -1 THEN 1 ELSE shape[d]])
    IN  [d \in 1..Len(shape) |->
           IF shape[d] = -1 THEN numel \div known ELSE shape[d]]

\* view / reshape of a contiguous tensor: the data stays, the shape changes.
View(t, shape) == Tensor(InferShape(Len(t.data), shape), t.data)

\* permute(*perm): dimension d of the result is dimension perm[d] of t; the
\* result is laid out contiguously (what a later reshape makes of it).
Permute(t, perm) ==
    LET n     == Len(perm)
        shape == Seq1([d \in 1..n |-> t.shape[perm[d]]])
        dstr  == Strides(shape)
        sstr  == Strides(t.shape)
    IN  Tensor(shape,
               [f \in 1.._prod(shape) |->
                  t.data[1 + SumTo(n, [d \in 1..n |->
                                         (((f - 1) \div dstr[d]) % shape[d]) * sstr[perm[d]]])]])

\* transpose(d1, d2) for negative d1, d2.
Transpose(t, d1, d2) ==
    LET n == Ndim(t)
        a == n + 1 + d1
        b == n + 1 + d2
    IN  Permute(t, [d \in 1..n |-> IF d = a THEN b ELSE IF d = b THEN a ELSE d])

\* The offset, in a tensor of shape src, of the entry that offset off of a
\* broadcast result of shape dst reads: shapes are right-aligned and a
\* dimension of size 1 is read at 0.
BroadcastOffset(off, dst, dstr, src, sstr) ==
    SumTo(Len(src),
          [d \in 1..Len(src) |->
             IF src[d] = 1 THEN 0
             ELSE ((off \div dstr[Len(dst) - Len(src) + d]) % src[d]) * sstr[d]])

\* expand(*shape)
Expand(t, shape) ==
    LET dstr == Strides(shape)
        sstr == Strides(t.shape)
    IN  Tensor(shape,
               [f \in 1.._prod(shape) |->
                  t.data[1 + BroadcastOffset(f - 1, shape, dstr, t.shape, sstr)]])

Unsqueeze(t) == Tensor(t.shape \o <<1>>, t.data)

Squeeze(t) ==
    IF t.shape[Len(t.shape)] = 1
    THEN Tensor(SubSeq(t.shape, 1, Len(t.shape) - 1), t.data)
    ELSE t

\* broadcast of two batch shapes (elementwise rule): right-aligned, sizes agree
\* or one of them is 1.
_mul_broadcast_shape(shape_a, shape_b) ==
    LET n  == IF Len(shape_a) > Len(shape_b) THEN Len(shape_a) ELSE Len(shape_b)
        pa == [d \in 1..n |-> IF d > n - Len(shape_a)
                              THEN shape_a[d - (n - Len(shape_a))] ELSE 1]
        pb == [d \in 1..n |-> IF d > n - Len(shape_b)
                              THEN shape_b[d - (n - Len(shape_b))] ELSE 1]
    IN  Seq1([d \in 1..n |-> IF pa[d] = 1 THEN pb[d] ELSE pa[d]])

\* broadcast of two shapes under matmul: batches broadcast, (m, n) @ (n, p).
_matmul_broadcast_shape(shape_a, shape_b) ==
    _mul_broadcast_shape(BatchOf(shape_a), BatchOf(shape_b))
        \o <<shape_a[Len(shape_a) - 1], shape_b[Len(shape_b)]>>

\* torch.matmul of two tensors with at least two dimensions each.
BMatmul(a, b) ==
    LET shape  == _matmul_broadcast_shape(a.shape, b.shape)
        batch  == BatchOf(shape)
        bstr   == Strides(batch)
        abatch == BatchOf(a.shape)
        astr   == Strides(abatch)
        bbatch == BatchOf(b.shape)
        bbstr  == Strides(bbatch)
        r      == TSize(a, -2)
        inner  == TSize(a, -1)
        m      == TSize(b, -1)
    IN  Tensor(shape,
               [f \in 1.._prod(shape) |->
                  LET bf    == (f - 1) \div (r * m)
                      i     == ((f - 1) \div m) % r
                      j     == (f - 1) % m
                      abase == BroadcastOffset(bf, batch, bstr, abatch, astr) * r * inner
                      bbase == BroadcastOffset(bf, batch, bstr, bbatch, bbstr) * inner * m
                  IN  SumTo(inner,
                            [k \in 1..inner |->
                               a.data[abase + i * inner + k]
                                 * b.data[bbase + (k - 1) * m + j + 1]])])

---------------------------------------------------------------------------
(* The exact determinant, inverse and Cholesky factor that the factors'    *)
(* own operations return, per batch entry.  A square matrix of size n is   *)
(* read in place: entry (i, j), 0-based, is data[base + i * n + j + 1].    *)

Sign(n) == IF n % 2 = 0 THEN 1 ELSE -1

Drop(s, k) == SubSeq(s, 1, k - 1) \o SubSeq(s, k + 1, Len(s))

Upto(n) == [d \in 1..n |-> d - 1]

\* The determinant of the submatrix of rows rs and columns cs (Laplace
\* expansion along its first row).
RECURSIVE DetSub(_, _, _, _, _)
DetSub(data, base, n, rs, cs) ==
    IF rs = <<>> THEN 1
    ELSE SumTo(Len(cs),
               [k \in 1..Len(cs) |->
                  IF data[base + rs[1] * n + cs[k] + 1] = 0 THEN 0
                  ELSE Sign(k + 1) * data[base + rs[1] * n + cs[k] + 1]
                         * DetSub(data, base, n, Tail(rs), Drop(cs, k))])

NumBatch(t) == _prod(BatchOf(t.shape))

\* The determinant of every batch entry of a tensor of square matrices.
Determinants(t) ==
    LET n == TSize(t, -1)
    IN  Seq1([bf \in 1..NumBatch(t) |->
                DetSub(t.data, (bf - 1) * n * n, n, Upto(n), Upto(n))])

\* The inverse of every batch entry, each of determinant 1 or -1: the
\* adjugate over the determinant.
InverseTensor(t) ==
    LET n    == TSize(t, -1)
        dets == Determinants(t)
    IN  Tensor(t.shape,
               [f \in 1.._prod(t.shape) |->
                  LET bf == (f - 1) \div (n * n)
                      i  == ((f - 1) \div n) % n
                      j  == (f - 1) % n
                  IN  dets[bf + 1] * Sign(i + j)
                        * DetSub(t.data, bf * n * n, n, Drop(Upto(n), j + 1), Drop(Upto(n), i + 1))])

\* The exact square root of a perfect square.
ISqrt(n) == CHOOSE s \in 0..n : s * s = n

\* The lower Cholesky factor of every batch entry, each positive definite
\* (Cholesky-Banachiewicz); the square roots and quotients are exact.
CholeskyTensor(t) ==
    LET n == TSize(t, -1)
        L[bf \in 0..(NumBatch(t) - 1), r \in 0..(n - 1), c \in 0..(n - 1)] ==
            IF c > r THEN 0
            ELSE LET s == SumTo(c, [k \in 1..c |-> L[bf, r, k - 1] * L[bf, c, k - 1]])
                     a == t.data[bf * n * n + r * n + c + 1]
                 IN  IF r = c THEN ISqrt(a - s) ELSE (a - s) \div L[bf, c, c]
    IN  Tensor(t.shape,
               [f \in 1.._prod(t.shape) |->
                  L[(f - 1) \div (n * n), ((f - 1) \div n) % n, (f - 1) % n]])

\* Symmetry and Sylvester's criterion, on every batch entry.
PositiveDefinite(t) ==
    LET n == TSize(t, -1)
    IN  \A bf \in 0..(NumBatch(t) - 1) :
           /\ \A i, j \in 0..(n - 1) :
                 t.data[bf * n * n + i * n + j + 1] = t.data[bf * n * n + j * n + i + 1]
           /\ \A k \in 1..n : DetSub(t.data, bf * n * n, n, Upto(k), Upto(k)) > 0

\* tril / triu: the triangle a triangular solve reads; the rest counts as 0.
Triangle(t, upper) ==
    LET n == TSize(t, -1)
    IN  Tensor(t.shape,
               [f \in 1.._prod(t.shape) |->
                  LET i == ((f - 1) \div n) % n
                      j == (f - 1) % n
                  IN  IF (upper /\ i > j) \/ (~upper /\ i < j) THEN 0 ELSE t.data[f]])

---------------------------------------------------------------------------
(* Factor operators: the lazy tensors a composite wraps.  A factor is a    *)
(* record [cls, tensor, upper]; cls is its class, upper the flag of a      *)
(* TriangularLazyTensor.                                                   *)

NonLazy(tensor) == [cls |-> "NonLazyTensor", tensor |-> tensor, upper |-> FALSE]

Triangular(tensor, upper) ==
    [cls |-> "TriangularLazyTensor", tensor |-> tensor, upper |-> upper]

IsLazyTensor(x) == x.cls \in {"NonLazyTensor", "TriangularLazyTensor"}

\* lazify: a torch tensor is wrapped, a lazy tensor is kept, anything else is
\* a TypeError.
CanLazify(x) == x.cls = "Tensor" \/ IsLazyTensor(x)

lazify(x) == IF x.cls = "Tensor" THEN NonLazy(x.tensor) ELSE x

LT_size(lt, dim) == TSize(lt.tensor, dim)

LT_batch_shape(lt) == BatchOf(lt.tensor.shape)

LT_matmul(lt, rhs) == BMatmul(lt.tensor, rhs)

LT_t_matmul(lt, rhs) == BMatmul(Transpose(lt.tensor, -2, -1), rhs)

LT_transpose_nonbatch(lt) ==
    [cls    |-> lt.cls,
     tensor |-> Transpose(lt.tensor, -2, -1),
     upper  |-> IF lt.cls = "TriangularLazyTensor" THEN ~lt.upper ELSE FALSE]

\* The matrix a factor's solve and inverse work on: a triangular factor reads
\* only the triangle its flag names.
LT_solve_tensor(lt) ==
    IF lt.cls = "TriangularLazyTensor" THEN Triangle(lt.tensor, lt.upper) ELSE lt.tensor

LT_invertible(lt) ==
    /\ LT_size(lt, -2) = LT_size(lt, -1)
    /\ \A bf \in 1..NumBatch(lt.tensor) : Determinants(LT_solve_tensor(lt))[bf] \in {1, -1}

LT_inverse(lt) ==
    [cls |-> lt.cls, tensor |-> InverseTensor(LT_solve_tensor(lt)), upper |-> lt.upper]

LT_inv_matmul(lt, rhs) == BMatmul(InverseTensor(LT_solve_tensor(lt)), rhs)

LT_positive_definite(lt) ==
    /\ LT_size(lt, -2) = LT_size(lt, -1)
    /\ PositiveDefinite(lt.tensor)

LT_cholesky(lt, upper) ==
    LET lower == CholeskyTensor(lt.tensor)
    IN  Triangular(IF upper THEN Transpose(lower, -2, -1) ELSE lower, upper)

\* _get_indices of a factor on index vectors: one entry per position.
LT_get_indices(lt, row_index, col_index, batch_indices) ==
    [p \in 1..Len(row_index) |->
       At(lt.tensor, [d \in 1..Len(batch_indices) |-> batch_indices[d][p]]
                       \o <<row_index[p], col_index[p]>>)]

LT_expand_batch(lt, batch_shape) ==
    [cls    |-> lt.cls,
     tensor |-> Expand(lt.tensor, batch_shape \o TailOf(lt.tensor.shape)),
     upper  |-> lt.upper]

---------------------------------------------------------------------------
(* The dense equivalent of a composite.                                    *)

\* The Kronecker product of two tensors of one batch shape: block (i, j) of
\* the result is a[i, j] * b.
Kron2(a, b) ==
    LET shape == BatchOf(a.shape)
                   \o <<TSize(a, -2) * TSize(b, -2), TSize(a, -1) * TSize(b, -1)>>
        ra    == TSize(a, -2)
        ca    == TSize(a, -1)
        rb    == TSize(b, -2)
        cb    == TSize(b, -1)
    IN  Tensor(shape,
               [f \in 1.._prod(shape) |->
                  LET bf == (f - 1) \div (ra * rb * ca * cb)
                      i  == ((f - 1) \div (ca * cb)) % (ra * rb)
                      j  == (f - 1) % (ca * cb)
                  IN  a.data[bf * ra * ca + (i \div rb) * ca + (j \div cb) + 1]
                        * b.data[bf * rb * cb + (i % rb) * cb + (j % cb) + 1]])

RECURSIVE KronAll(_)
KronAll(tensors) ==
    IF Len(tensors) = 1 THEN Head(tensors)
    ELSE Kron2(Head(tensors), KronAll(Tail(tensors)))

DenseKron(lazy_tensors) ==
    KronAll([n \in 1..Len(lazy_tensors) |-> lazy_tensors[n].tensor])

---------------------------------------------------------------------------
(* The sweeps over the factors.                                            *)

\* The step without its transpose(-3, -2).
_matmul_step_no_transpose(lazy_tensor, output_batch_shape, num_cols, res) ==
    LET res1   == View(res, output_batch_shape \o <<LT_size(lazy_tensor, -1), -1>>)
        factor == LT_matmul(lazy_tensor, res1)
    IN  View(factor, output_batch_shape \o <<-1, num_cols>>)

_matmul_step(lazy_tensor, output_batch_shape, num_cols, res) ==
    LET res1    == View(res, output_batch_shape \o <<LT_size(lazy_tensor, -1), -1>>)
        factor  == LT_matmul(lazy_tensor, res1)
        factor1 == Transpose(View(factor, output_batch_shape
                                            \o <<LT_size(lazy_tensor, -2), -1, num_cols>>),
                             -3, -2)
    IN  View(factor1, output_batch_shape \o <<-1, num_cols>>)

RECURSIVE _matmul_loop(_, _, _, _)
_matmul_loop(lazy_tensors, output_batch_shape, num_cols, res) ==
    IF lazy_tensors = <<>> THEN res
    ELSE _matmul_loop(Tail(lazy_tensors), output_batch_shape, num_cols,
                      _matmul_step(Head(lazy_tensors), output_batch_shape, num_cols, res))

_matmul(lazy_tensors, kp_shape, rhs) ==
    LET output_shape       == _matmul_broadcast_shape(kp_shape, rhs.shape)
        output_batch_shape == BatchOf(output_shape)
        res                == Expand(rhs, output_batch_shape \o TailOf(rhs.shape))
        num_cols           == TSize(rhs, -1)
    IN  _matmul_loop(lazy_tensors, output_batch_shape, num_cols, res)

\* The step without its transpose(-3, -2).
_t_matmul_step_no_transpose(lazy_tensor, output_batch_shape, num_cols, res) ==
    LET res1   == View(res, output_batch_shape \o <<LT_size(lazy_tensor, -2), -1>>)
        factor == LT_t_matmul(lazy_tensor, res1)
    IN  View(factor, output_batch_shape \o <<-1, num_cols>>)

_t_matmul_step(lazy_tensor, output_batch_shape, num_cols, res) ==
    LET res1    == View(res, output_batch_shape \o <<LT_size(lazy_tensor, -2), -1>>)
        factor  == LT_t_matmul(lazy_tensor, res1)
        factor1 == Transpose(View(factor, output_batch_shape
                                            \o <<LT_size(lazy_tensor, -1), -1, num_cols>>),
                             -3, -2)
    IN  View(factor1, output_batch_shape \o <<-1, num_cols>>)

RECURSIVE _t_matmul_loop(_, _, _, _)
_t_matmul_loop(lazy_tensors, output_batch_shape, num_cols, res) ==
    IF lazy_tensors = <<>> THEN res
    ELSE _t_matmul_loop(Tail(lazy_tensors), output_batch_shape, num_cols,
                        _t_matmul_step(Head(lazy_tensors), output_batch_shape, num_cols, res))

_t_matmul(lazy_tensors, kp_shape, rhs) ==
    LET kp_t_shape         == BatchOf(kp_shape)
                                \o <<kp_shape[Len(kp_shape)], kp_shape[Len(kp_shape) - 1]>>
        output_shape       == _matmul_broadcast_shape(kp_t_shape, rhs.shape)
        output_batch_shape == BatchOf(output_shape)
        res                == Expand(rhs, output_batch_shape \o TailOf(rhs.shape))
        num_cols           == TSize(rhs, -1)
    IN  _t_matmul_loop(lazy_tensors, output_batch_shape, num_cols, res)

---------------------------------------------------------------------------
(* KroneckerProductLazyTensor and KroneckerProductTriangularLazyTensor.    *)
(* An instance is a record [cls, lazy_tensors, upper, _kwargs]; a          *)
(* constructor that raises yields RuntimeError instead.                    *)

KPLT == "KroneckerProductLazyTensor"

KPTLT == "KroneckerProductTriangularLazyTensor"

RuntimeError == [cls |-> "RuntimeError"]

NoObj == [cls |-> "None"]

IsComposite(x) == x.cls \in {KPLT, KPTLT}

\* KroneckerProductLazyTensor.__init__: lazify every argument, compare the
\* batch shapes of neighbours, keep the factors.  The base class records the
\* keyword arguments it is handed: none.
\* The constructor without the comparison of batch shapes.
KPLT_init_unchecked(cls, args, upper) ==
    IF \E n \in 1..Len(args) : ~CanLazify(args[n]) THEN RuntimeError
    ELSE [cls |-> cls, lazy_tensors |-> [n \in 1..Len(args) |-> lazify(args[n])],
          upper |-> upper, _kwargs |-> <<>>]

KPLT_init(cls, args, upper) ==
    IF \E n \in 1..Len(args) : ~CanLazify(args[n]) THEN RuntimeError
    ELSE LET lazy_tensors == [n \in 1..Len(args) |-> lazify(args[n])]
         IN  IF \E n \in 1..(Len(lazy_tensors) - 1) :
                    LT_batch_shape(lazy_tensors[n]) # LT_batch_shape(lazy_tensors[n + 1])
             THEN RuntimeError
             ELSE [cls |-> cls, lazy_tensors |-> lazy_tensors, upper |-> upper,
                   _kwargs |-> <<>>]

\* KroneckerProductTriangularLazyTensor.__init__
KPTLT_init(args, upper) ==
    IF ~(\A n \in 1..Len(args) : args[n].cls = "TriangularLazyTensor") THEN RuntimeError
    ELSE KPLT_init(KPTLT, args, upper)

\* cls(*args, **kwargs): upper is the constructor's default unless kwargs has it.
New(cls, args, kwargs) ==
    IF cls = KPTLT
    THEN KPTLT_init(args, IF kwargs = <<>> THEN FALSE ELSE kwargs[1])
    ELSE KPLT_init(KPLT, args, FALSE)

_size(this) ==
    LET left_size  == _prod([n \in 1..Len(this.lazy_tensors) |->
                               LT_size(this.lazy_tensors[n], -2)])
        right_size == _prod([n \in 1..Len(this.lazy_tensors) |->
                               LT_size(this.lazy_tensors[n], -1)])
    IN  LT_batch_shape(this.lazy_tensors[1]) \o <<left_size, right_size>>

KPLT_matmul(this, rhs) ==
    LET is_vec == Ndim(rhs) = 1
        rhs1   == IF is_vec THEN Unsqueeze(rhs) ELSE rhs
        res    == _matmul(this.lazy_tensors, _size(this), rhs1)
    IN  IF is_vec THEN Squeeze(res) ELSE res

KPLT_t_matmul(this, rhs) ==
    LET is_vec == Ndim(rhs) = 1
        rhs1   == IF is_vec THEN Unsqueeze(rhs) ELSE rhs
        res    == _t_matmul(this.lazy_tensors, _size(this), rhs1)
    IN  IF is_vec THEN Squeeze(res) ELSE res

_transpose_nonbatch(this) ==
    New(this.cls,
        [n \in 1..Len(this.lazy_tensors) |-> LT_transpose_nonbatch(this.lazy_tensors[n])],
        this._kwargs)

\* Tensor floor division and fmod (the remainder takes the dividend's sign)
\* on index vectors.
FloorDiv(index, d) == [p \in 1..Len(index) |-> index[p] \div d]

Fmod(index, d) ==
    [p \in 1..Len(index) |->
       IF index[p] >= 0 THEN index[p] % d ELSE -((-index[p]) % d)]

\* The index into one factor without the division by the remaining sizes.
SubIndex_no_division(index, factor, sub_size) == Fmod(index, sub_size)

\* The index into one factor: (index // factor).fmod(sub_size).
SubIndex(index, factor, sub_size) == Fmod(FloorDiv(index, factor), sub_size)

RECURSIVE _get_indices_loop(_, _, _, _, _, _, _)
_get_indices_loop(lazy_tensors, row_factor, col_factor, res, row_index, col_index, batch_indices) ==
    IF lazy_tensors = <<>> THEN res
    ELSE LET lazy_tensor  == Head(lazy_tensors)
             sub_row_size == LT_size(lazy_tensor, -2)
             sub_col_size == LT_size(lazy_tensor, -1)
             row_factor1  == row_factor \div sub_row_size
             col_factor1  == col_factor \div sub_col_size
             sub_res      == LT_get_indices(lazy_tensor,
                                            SubIndex(row_index, row_factor1, sub_row_size),
                                            SubIndex(col_index, col_factor1, sub_col_size),
                                            batch_indices)
             res1         == IF res = <<>> THEN sub_res
                             ELSE [p \in 1..Len(sub_res) |-> sub_res[p] * res[p]]
         IN  _get_indices_loop(Tail(lazy_tensors), row_factor1, col_factor1, res1,
                               row_index, col_index, batch_indices)

_get_indices(this, row_index, col_index, batch_indices) ==
    LET size == _size(this)
    IN  _get_indices_loop(this.lazy_tensors, size[Len(size) - 1], size[Len(size)], <<>>,
                          row_index, col_index, batch_indices)

---------------------------------------------------------------------------
(* Solves.  A solve returns [res, log]: the solution and the solves it     *)
(* delegated to, in call order.                                            *)

\* An absent optional tensor argument.
None == Tensor(<<>>, <<>>)

\* One call of factor number `index`'s own inv_matmul.
FactorSolve(index) == [by |-> "factor", index |-> index]

\* One solve of the whole composite, of the given size, by the base class.
BaseSolve(size) == [by |-> "LazyTensor", index |-> 0, size |-> size]

\* One inv_matmul of the composite obj, as _cholesky_solve calls it.
CompositeSolve(obj, rhs, out) ==
    [by |-> "composite", obj |-> obj, rhs |-> rhs, ret |-> out.res, calls |-> out.log]

\* The step without its permute.
_inv_matmul_step_no_permute(q, n, n_rows, batch_shape, y) ==
    LET y1 == LT_inv_matmul(q, View(y, batch_shape \o <<n, -1>>))
    IN  View(y1, batch_shape \o <<n, n_rows \div n, -1>>)

_inv_matmul_step(q, n, n_rows, batch_shape, y) ==
    LET nb == Len(batch_shape)
        y1 == LT_inv_matmul(q, View(y, batch_shape \o <<n, -1>>))
    IN  Permute(View(y1, batch_shape \o <<n, n_rows \div n, -1>>),
                [d \in 1..nb |-> d] \o <<nb + 2, nb + 1, nb + 3>>)

RECURSIVE _inv_matmul_loop(_, _, _, _, _)
_inv_matmul_loop(this, i, n_rows, batch_shape, acc) ==
    IF i > Len(this.lazy_tensors) THEN acc
    ELSE LET q == this.lazy_tensors[i]
             n == LT_size(q, -1)
         IN  _inv_matmul_loop(this, i + 1, n_rows, batch_shape,
                              [y   |-> _inv_matmul_step(q, n, n_rows, batch_shape, acc.y),
                               log |-> Append(acc.log, FactorSolve(i))])

_inv_matmul(this, right_tensor, left_tensor) ==
    LET n_rows      == TSize(right_tensor, -2)
        batch_shape == _mul_broadcast_shape(BatchOf(_size(this)), BatchOf(right_tensor.shape))
        y           == Expand(right_tensor, batch_shape \o TailOf(right_tensor.shape))
        acc         == _inv_matmul_loop(this, 1, n_rows, batch_shape, [y |-> y, log |-> <<>>])
        res         == View(acc.y, batch_shape \o <<n_rows, -1>>)
    IN  [res |-> IF left_tensor # None THEN BMatmul(left_tensor, res) ELSE res,
         log |-> acc.log]

\* LazyTensor.inv_matmul, the base class's solve: one solve with the whole
\* operator, returning the solution of this @ x = right_tensor.
LazyTensor_inv_matmul(this, right_tensor, left_tensor) ==
    LET inverse_dense == DenseKron([n \in 1..Len(this.lazy_tensors) |->
                                      LT_inverse(this.lazy_tensors[n])])
        res           == BMatmul(inverse_dense, right_tensor)
    IN  [res |-> IF left_tensor # None THEN BMatmul(left_tensor, res) ELSE res,
         log |-> <<BaseSolve(TSize(inverse_dense, -1))>>]

\* The general composite's solve routed to the sweep over the factors.
KPLT_inv_matmul_separable(this, right_tensor, left_tensor) ==
    _inv_matmul(this, right_tensor, left_tensor)

KPLT_inv_matmul(this, right_tensor, left_tensor) ==
    LazyTensor_inv_matmul(this, right_tensor, left_tensor)

KPTLT_inv_matmul(this, right_tensor, left_tensor) ==
    _inv_matmul(this, right_tensor, left_tensor)

\* obj.inv_matmul(...): the method of obj's class.
inv_matmul(this, right_tensor, left_tensor) ==
    IF this.cls = KPTLT THEN KPTLT_inv_matmul(this, right_tensor, left_tensor)
    ELSE KPLT_inv_matmul(this, right_tensor, left_tensor)

\* The value and the log of two solves: w by `first` against rhs, res by
\* `second` against w.
TwoSolves(first, second, rhs, w, res) ==
    [res |-> res.res,
     log |-> <<CompositeSolve(first, rhs, w), CompositeSolve(second, w.res, res)>>]

\* res = second.inv_matmul(w), w being first.inv_matmul(rhs).
SecondSolve(first, second, rhs, w) ==
    TwoSolves(first, second, rhs, w, inv_matmul(second, w.res, None))

\* The two solves ordered by the composite's own flag instead of the call's.
_cholesky_solve_own_upper(this, rhs, upper) ==
    IF this.upper
    THEN SecondSolve(_transpose_nonbatch(this), this, rhs,
                     inv_matmul(_transpose_nonbatch(this), rhs, None))
    ELSE SecondSolve(this, _transpose_nonbatch(this), rhs,
                     inv_matmul(this, rhs, None))

_cholesky_solve(this, rhs, upper) ==
    IF upper
    THEN SecondSolve(_transpose_nonbatch(this), this, rhs,
                     inv_matmul(_transpose_nonbatch(this), rhs, None))
    ELSE SecondSolve(this, _transpose_nonbatch(this), rhs,
                     inv_matmul(this, rhs, None))

---------------------------------------------------------------------------
(* Cholesky factor and inverse of a composite.                             *)

_cholesky(this, upper) ==
    LET chol_factors == [n \in 1..Len(this.lazy_tensors) |->
                           LT_cholesky(this.lazy_tensors[n], upper)]
    IN  New(KPTLT, chol_factors, <<upper>>)

KPLT_inverse(this) ==
    LET inverses == [n \in 1..Len(this.lazy_tensors) |-> LT_inverse(this.lazy_tensors[n])]
    IN  New(this.cls, inverses, <<>>)

\* The triangular inverse built without handing on the upper flag.
KPTLT_inverse_default_upper(this) ==
    LET inverses == [n \in 1..Len(this.lazy_tensors) |-> LT_inverse(this.lazy_tensors[n])]
    IN  New(this.cls, inverses, <<>>)

KPTLT_inverse(this) ==
    LET inverses == [n \in 1..Len(this.lazy_tensors) |-> LT_inverse(this.lazy_tensors[n])]
    IN  New(this.cls, inverses, <<this.upper>>)

\* obj.inverse(): the method of obj's class, without its cache.
inverse_of(this) ==
    IF this.cls = KPTLT THEN KPTLT_inverse(this) ELSE KPLT_inverse(this)

---------------------------------------------------------------------------
(* The memoization facility (utils.memoize.cached): a value is stored on   *)
(* the instance under the cache's name by the first call and returned by   *)
(* every later one.                                                        *)

IsInCache(name) == name \in DOMAIN cache

AddToCache(name, value) ==
    [n \in DOMAIN cache \cup {name} |-> IF n = name THEN value ELSE cache[n]]

\* A call of a method decorated with @cached(name): returns through result.
Cached(name, value) ==
    IF IsInCache(name)
    THEN /\ result' = cache[name]
         /\ UNCHANGED <<cache, computed>>
    ELSE /\ result' = value
         /\ cache' = AddToCache(name, value)
         /\ computed' = [computed EXCEPT ![name] = @ + 1]

\* Reading self.shape inside a method: size() is memoized under "size".
ReadShape ==
    IF IsInCache("size") THEN UNCHANGED <<cache, computed>>
    ELSE /\ cache' = AddToCache("size", _size(self))
         /\ computed' = [computed EXCEPT !["size"] = @ + 1]

---------------------------------------------------------------------------
(* Inputs.                                                                 *)

NotATensor == [cls |-> "NotATensor", tensor |-> None, upper |-> FALSE]

RawTensor(tensor) == [cls |-> "Tensor", tensor |-> tensor, upper |-> FALSE]

\* Factors without batch dimensions: square and non-square dense factors,
\* lower and upper triangular factors.
PlainFactors ==
    { NonLazy(Tensor(<<2, 2>>, <<1, 2, 3, 5>>)),
      NonLazy(Tensor(<<3, 3>>, <<1, 2, 0, 0, 1, 3, 2, 0, 1>>)),
      NonLazy(Tensor(<<2, 3>>, <<1, 2, 3, 4, 5, 6>>)),
      NonLazy(Tensor(<<3, 2>>, <<1, -1, 2, 0, 0, 3>>)),
      NonLazy(Tensor(<<1, 2>>, <<2, 3>>)),
      Triangular(Tensor(<<2, 2>>, <<1, 0, 2, 1>>), FALSE),
      Triangular(Tensor(<<2, 2>>, <<1, 3, 0, -1>>), TRUE),
      Triangular(Tensor(<<3, 3>>, <<1, 0, 0, 2, 1, 0, 3, -1, 1>>), FALSE) }

\* Factors of batch shape (2,).
BatchFactors ==
    { NonLazy(Tensor(<<2, 2, 2>>, <<1, 2, 3, 5, 2, 1, 1, 1>>)),
      NonLazy(Tensor(<<2, 2, 1>>, <<1, 2, 3, -1>>)),
      Triangular(Tensor(<<2, 2, 2>>, <<1, 0, 2, 1, -1, 0, 3, 1>>), FALSE) }

\* Constructor arguments of the lifecycle: raw tensors, dense and triangular
\* lazy tensors (positive definite ones among them), with and without batch
\* dimensions, and an argument that is no tensor.
LifecycleArgs ==
    { RawTensor(Tensor(<<2, 2>>, <<1, 2, 2, 5>>)),
      NonLazy(Tensor(<<2, 2>>, <<1, 1, 1, 2>>)),
      NonLazy(Tensor(<<2, 2>>, <<4, 2, 2, 2>>)),
      Triangular(Tensor(<<2, 2>>, <<1, 0, 2, 1>>), FALSE),
      Triangular(Tensor(<<2, 2>>, <<1, 3, 0, -1>>), TRUE),
      NonLazy(Tensor(<<2, 2, 2>>, <<1, 2, 2, 5, 1, 1, 1, 2>>)),
      Triangular(Tensor(<<2, 2, 2>>, <<1, 0, 2, 1, -1, 0, 3, 1>>), FALSE),
      NotATensor }

ArgLists(pool) == UNION {[1..k -> pool] : k \in 1..MaxFactors}

\* The argument lists whose product stays within the model's size.
Fits(args) ==
    /\ Len(args) <= MaxFactors
    /\ _prod([n \in 1..Len(args) |->
                IF args[n] = NotATensor THEN 1 ELSE TSize(args[n].tensor, -2)]) <= MaxSize
    /\ _prod([n \in 1..Len(args) |->
                IF args[n] = NotATensor THEN 1 ELSE TSize(args[n].tensor, -1)]) <= MaxSize

\* The composites of the numeric operations: every construction from the
\* factor pools that succeeds.
Composites ==
    { o \in { New(KPLT, args, <<>>) : args \in {a \in ArgLists(PlainFactors \cup BatchFactors) : Fits(a)} }
              \cup { New(KPTLT, c[1], <<c[2]>>) :
                       c \in {a \in ArgLists(PlainFactors \cup BatchFactors) : Fits(a)} \X BOOLEAN } :
        IsComposite(o) }

Pattern(shape, seed) ==
    Tensor(shape, [f \in 1.._prod(shape) |-> ((f * f + seed * f) % 7) - 3])

UnitColumn(n, k) == Tensor(<<n, 1>>, [f \in 1..n |-> IF f = k THEN 1 ELSE 0])

\* Right-hand sides with n rows: the unit columns, a two-column matrix and a
\* batch of two columns.
MatrixRhs(n) ==
    {UnitColumn(n, k) : k \in 1..n}
        \cup {Pattern(<<n, 2>>, 1), Pattern(<<2, n, 1>>, 2)}

\* ... and a plain vector.
AnyRhs(n) == MatrixRhs(n) \cup {Pattern(<<n>>, 3)}

Rows(this) == _size(this)[Len(_size(this)) - 1]

Cols(this) == _size(this)[Len(_size(this))]

NoCall ==
    [op |-> "none", rhs |-> None, left |-> None, upper |-> FALSE,
     rows |-> <<>>, cols |-> <<>>, batch |-> <<>>, cls |-> "", args |-> <<>>]

NoCounts == [n \in {"size", "cholesky", "inverse"} |-> 0]

---------------------------------------------------------------------------
(* The numeric operations on a constructed composite.                      *)

Init ==
    /\ self \in Composites
    /\ cache = <<>>
    /\ computed = NoCounts
    /\ call = NoCall
    /\ result = None
    /\ trace = <<>>
    /\ pc = "idle"

matmul ==
    /\ pc = "idle"
    /\ \E rhs \in AnyRhs(Cols(self)) :
          /\ call' = [NoCall EXCEPT !.op = "matmul", !.rhs = rhs]
          /\ result' = KPLT_matmul(self, rhs)
    /\ ReadShape
    /\ pc' = "done"
    /\ UNCHANGED <<self, trace>>

t_matmul ==
    /\ pc = "idle"
    /\ \E rhs \in AnyRhs(Rows(self)) :
          /\ call' = [NoCall EXCEPT !.op = "t_matmul", !.rhs = rhs]
          /\ result' = KPLT_t_matmul(self, rhs)
    /\ ReadShape
    /\ pc' = "done"
    /\ UNCHANGED <<self, trace>>

\* One batch index vector per batch dimension, all positions at entry b.
BatchIndexVectors(this, b, len) ==
    LET bs  == BatchOf(_size(this))
        str == Strides(bs)
    IN  [d \in 1..Len(bs) |-> [p \in 1..len |-> (b \div str[d]) % bs[d]]]

\* _get_indices on index vectors: row i against every column, at one batch
\* entry.
get_indices ==
    /\ pc = "idle"
    /\ \E i \in 0..(Rows(self) - 1), b \in 0..(_prod(BatchOf(_size(self))) - 1) :
          LET row_index     == [p \in 1..Cols(self) |-> i]
              col_index     == [p \in 1..Cols(self) |-> p - 1]
              batch_indices == BatchIndexVectors(self, b, Cols(self))
          IN  /\ call' = [NoCall EXCEPT !.op = "get_indices", !.rows = row_index,
                                        !.cols = col_index, !.batch = batch_indices]
              /\ result' = _get_indices(self, row_index, col_index, batch_indices)
    /\ ReadShape
    /\ pc' = "done"
    /\ UNCHANGED <<self, trace>>

transpose_nonbatch ==
    /\ pc = "idle"
    /\ call' = [NoCall EXCEPT !.op = "transpose_nonbatch"]
    /\ result' = _transpose_nonbatch(self)
    /\ pc' = "done"
    /\ UNCHANGED <<self, cache, computed, trace>>

Invertible(this) == \A n \in 1..Len(this.lazy_tensors) : LT_invertible(this.lazy_tensors[n])

\* inv_matmul(right_tensor, left_tensor) on a composite whose factors' solves
\* succeed.
solve ==
    /\ pc = "idle"
    /\ Invertible(self)
    /\ \E rhs \in MatrixRhs(Rows(self)), left \in {None, Pattern(<<2, Cols(self)>>, 4)} :
          LET out == inv_matmul(self, rhs, left)
          IN  /\ call' = [NoCall EXCEPT !.op = "inv_matmul", !.rhs = rhs, !.left = left]
              /\ result' = out.res
              /\ trace' = out.log
    /\ ReadShape
    /\ pc' = "done"
    /\ UNCHANGED self

cholesky_solve ==
    /\ pc = "idle"
    /\ self.cls = KPTLT
    /\ Invertible(self)
    /\ \E rhs \in MatrixRhs(Rows(self)), upper \in BOOLEAN :
          LET out == _cholesky_solve(self, rhs, upper)
          IN  /\ call' = [NoCall EXCEPT !.op = "cholesky_solve", !.rhs = rhs, !.upper = upper]
              /\ result' = out.res
              /\ trace' = out.log
    /\ ReadShape
    /\ pc' = "done"
    /\ UNCHANGED self

\* The call has returned; the client is ready for the next one.
Return ==
    /\ pc = "done"
    /\ pc' = "idle"
    /\ call' = NoCall
    /\ result' = None
    /\ trace' = <<>>
    /\ UNCHANGED <<self, cache, computed>>

Next ==
    \/ matmul
    \/ t_matmul
    \/ get_indices
    \/ transpose_nonbatch
    \/ solve
    \/ cholesky_solve
    \/ Return

Spec == Init /\ [][Next]_vars

---------------------------------------------------------------------------
(* The lifecycle of one composite: construction, then calls of the         *)
(* memoized methods.                                                       *)

InitLifecycle ==
    /\ self = NoObj
    /\ cache = <<>>
    /\ computed = NoCounts
    /\ call = NoCall
    /\ result = None
    /\ trace = <<>>
    /\ pc = "new"

\* cls(*args) or cls(*args, upper=...): the instance exists only if __init__
\* returns.
construct ==
    /\ pc = "new"
    /\ \E cls \in {KPLT, KPTLT}, args \in {a \in ArgLists(LifecycleArgs) : Fits(a)},
          kwargs \in {<<>>, <<TRUE>>, <<FALSE>>} :
          /\ cls = KPLT => kwargs = <<>>
          /\ call' = [NoCall EXCEPT !.op = "__init__", !.cls = cls, !.args = args,
                                    !.upper = (kwargs = <<TRUE>>)]
          /\ LET obj == New(cls, args, kwargs)
             IN  /\ result' = obj
                 /\ IF IsComposite(obj)
                    THEN self' = obj /\ pc' = "done"
                    ELSE self' = self /\ pc' = "raised"
    /\ UNCHANGED <<cache, computed, trace>>

size ==
    /\ pc = "idle"
    /\ call' = [NoCall EXCEPT !.op = "size"]
    /\ Cached("size", _size(self))
    /\ pc' = "done"
    /\ UNCHANGED <<self, trace>>

PositiveDefiniteFactors(this) ==
    \A n \in 1..Len(this.lazy_tensors) : LT_positive_definite(this.lazy_tensors[n])

\* _cholesky(upper) on a composite whose factors' factorizations succeed.
cholesky ==
    /\ pc = "idle"
    /\ PositiveDefiniteFactors(self)
    /\ \E upper \in BOOLEAN :
          /\ call' = [NoCall EXCEPT !.op = "cholesky", !.upper = upper]
          /\ Cached("cholesky", _cholesky(self, upper))
    /\ pc' = "done"
    /\ UNCHANGED <<self, trace>>

\* inverse() without its @cached decorator.
inverse_uncached ==
    /\ pc = "idle"
    /\ Invertible(self)
    /\ call' = [NoCall EXCEPT !.op = "inverse"]
    /\ result' = inverse_of(self)
    /\ computed' = [computed EXCEPT !["inverse"] = @ + 1]
    /\ pc' = "done"
    /\ UNCHANGED <<self, cache, trace>>

\* inverse() on a composite whose factors' inverses exist.
inverse ==
    /\ pc = "idle"
    /\ Invertible(self)
    /\ call' = [NoCall EXCEPT !.op = "inverse"]
    /\ Cached("inverse", inverse_of(self))
    /\ pc' = "done"
    /\ UNCHANGED <<self, trace>>

NextLifecycle ==
    \/ construct
    \/ size
    \/ cholesky
    \/ inverse
    \/ Return

SpecLifecycle == InitLifecycle /\ [][NextLifecycle]_vars

---------------------------------------------------------------------------
(* Properties of the numeric operations (checked under Spec).              *)

Done(op) == pc = "done" /\ call.op = op

NumFactors(this) == Len(this.lazy_tensors)

NonSquare(this) ==
    \E n \in 1..NumFactors(this) :
        LT_size(this.lazy_tensors[n], -2) # LT_size(this.lazy_tensors[n], -1)

\* rhs broadcast against the batch shape of this.
Broadcast(this, rhs) ==
    Expand(rhs, _mul_broadcast_shape(BatchOf(_size(this)), BatchOf(rhs.shape))
                  \o TailOf(rhs.shape))

\* dense @ rhs, a plain vector counting as one column and giving a vector.
DenseMatmul(dense, rhs) ==
    IF Ndim(rhs) = 1 THEN Squeeze(BMatmul(dense, Unsqueeze(rhs))) ELSE BMatmul(dense, rhs)

\* Entry (i, j) of batch entry bf of the Kronecker product, by mixed-radix
\* digits, the first factor's digit most significant: the product over the
\* factors t of F_t[(i // R_t) mod rows_t, (j // C_t) mod cols_t].
MixedRadixEntry(lazy_tensors, bf, i, j) ==
    LET k  == Len(lazy_tensors)
        rs == Seq1([t \in 1..k |-> LT_size(lazy_tensors[t], -2)])
        cs == Seq1([t \in 1..k |-> LT_size(lazy_tensors[t], -1)])
    IN  _prod([t \in 1..k |->
                 lazy_tensors[t].tensor.data[
                     bf * rs[t] * cs[t]
                       + ((i \div _prod(SubSeq(rs, t + 1, k))) % rs[t]) * cs[t]
                       + ((j \div _prod(SubSeq(cs, t + 1, k))) % cs[t]) + 1]])

\* C1: matmul(rhs), computed by the sweep over the factors in factor order,
\* equals the dense Kronecker product of the factors times rhs, for square and
\* non-square factors, matrices and plain vectors; the rows of the result are
\* in mixed-radix order with the first factor's digit most significant, and a
\* vector gives a vector with one entry per row of the composite.
C1_MatmulIsDenseProduct ==
    Done("matmul") =>
        LET dense    == DenseKron(self.lazy_tensors)
            expected == DenseMatmul(dense, call.rhs)
        IN  /\ result = expected
            /\ \A i \in 0..(Rows(self) - 1), j \in 0..(Cols(self) - 1) :
                  dense.data[i * Cols(self) + j + 1]
                      = MixedRadixEntry(self.lazy_tensors, 0, i, j)
            /\ Ndim(call.rhs) = 1 =>
                  result.shape = BatchOf(_size(self)) \o <<Rows(self)>>

C1_Witness ==
    /\ Done("matmul")
    /\ NumFactors(self) = 3
    /\ NonSquare(self)
    /\ Ndim(call.rhs) = 1
    /\ \E p \in 1..Len(result.data) : result.data[p] # 0

\* C2: index_gather(i, j) is the dense Kronecker product's entry [i, j], the
\* product over the factors of the entries the mixed-radix digits of i and j
\* select; for a 2x2 factor A and a 3x3 factor B it is
\* A[i // 3, j // 3] * B[i % 3, j % 3].
C2_GetIndicesIsDenseEntry ==
    Done("get_indices") =>
        LET dense == DenseKron(self.lazy_tensors)
            nb    == Len(call.batch)
        IN  \A p \in 1..Len(call.rows) :
               LET i  == call.rows[p]
                   j  == call.cols[p]
                   bi == [d \in 1..nb |-> call.batch[d][p]]
                   bf == Offset(bi, BatchOf(_size(self)))
                   A  == self.lazy_tensors[1].tensor
                   B  == self.lazy_tensors[NumFactors(self)].tensor
               IN  /\ result[p] = At(dense, bi \o <<i, j>>)
                   /\ result[p] = MixedRadixEntry(self.lazy_tensors, bf, i, j)
                   /\ (NumFactors(self) = 2 /\ A.shape = <<2, 2>> /\ B.shape = <<3, 3>>) =>
                         result[p] = At(A, <<i \div 3, j \div 3>>) * At(B, <<i % 3, j % 3>>)

C2_Witness ==
    /\ Done("get_indices")
    /\ NumFactors(self) = 2
    /\ self.lazy_tensors[1].tensor.shape = <<2, 2>>
    /\ self.lazy_tensors[2].tensor.shape = <<3, 3>>
    /\ call.rows[1] = 5
    /\ result[6] # 0

\* C3: transpose_matmul(v) equals transpose_nonbatch().matmul(v), and both
\* equal the transposed dense Kronecker product times v, also for non-square
\* factors; transpose_nonbatch() transposes every factor and keeps the order.
C3_TransposeConsistency ==
    /\ Done("t_matmul") =>
          /\ result = KPLT_matmul(_transpose_nonbatch(self), call.rhs)
          /\ result = DenseMatmul(Transpose(DenseKron(self.lazy_tensors), -2, -1), call.rhs)
    /\ Done("transpose_nonbatch") =>
          /\ result.cls = self.cls
          /\ NumFactors(result) = NumFactors(self)
          /\ \A n \in 1..NumFactors(self) :
                result.lazy_tensors[n] = LT_transpose_nonbatch(self.lazy_tensors[n])

C3_Witness ==
    /\ Done("t_matmul")
    /\ NumFactors(self) = 3
    /\ NonSquare(self)
    /\ Rows(self) # Cols(self)
    /\ \E p \in 1..Len(result.data) : result.data[p] # 0

FactorSolves(this) == [n \in 1..NumFactors(this) |-> FactorSolve(n)]

\* The solution of this @ x = rhs, from the dense inverse.
DenseSolution(this, rhs) ==
    BMatmul(DenseKron([n \in 1..NumFactors(this) |-> LT_inverse(this.lazy_tensors[n])]), rhs)

\* C8 as stated: solve on a general (non-triangular) composite is the sweep
\* over the factors, one call of each factor's own solve in factor order, and
\* never one solve of the full size by the base class.
C8_GeneralSolveIsSeparable ==
    (Done("inv_matmul") /\ self.cls = KPLT) => trace = FactorSolves(self)

\* C8 as amended: solve on a general (non-triangular) composite is handed to
\* the base class: one solve of the full size, no call of a factor's own
\* solve; the value is the solution of composite @ x = rhs, left-multiplied
\* by the left operand when one is given.
C8_GeneralSolveIsDelegated ==
    (Done("inv_matmul") /\ self.cls = KPLT) =>
        LET x == DenseSolution(self, call.rhs)
        IN  /\ trace = <<BaseSolve(Cols(self))>>
            /\ KPLT_matmul(self, x) = Broadcast(self, call.rhs)
            /\ result = IF call.left # None THEN BMatmul(call.left, x) ELSE x

C8_Witness ==
    /\ Done("inv_matmul")
    /\ self.cls = KPLT
    /\ NumFactors(self) = 3
    /\ Len(trace) = 1

\* C9: solve on a triangular composite with square invertible factors is the
\* sweep over the factors, one solve per factor in factor order; it returns x
\* with T.matmul(x) = rhs, left-multiplied by the left operand when one is
\* given, so that T.solve(T.matmul(v)) = v; the batch shape of the result is
\* the broadcast of the composite's and the right-hand side's batch shapes.
C9_TriangularSolve ==
    (Done("inv_matmul") /\ self.cls = KPTLT) =>
        LET x == DenseSolution(self, call.rhs)
        IN  /\ trace = FactorSolves(self)
            /\ KPLT_matmul(self, x) = Broadcast(self, call.rhs)
            /\ result = IF call.left # None THEN BMatmul(call.left, x) ELSE x
            /\ inv_matmul(self, KPLT_matmul(self, call.rhs), None).res
                  = Broadcast(self, call.rhs)
            /\ BatchOf(result.shape)
                  = _mul_broadcast_shape(BatchOf(_size(self)), BatchOf(call.rhs.shape))

C9_Witness ==
    /\ Done("inv_matmul")
    /\ self.cls = KPTLT
    /\ NumFactors(self) = 3
    /\ BatchOf(_size(self)) = <<>>
    /\ BatchOf(call.rhs.shape) = <<2>>
    /\ BatchOf(result.shape) = <<2>>

\* C10: cholesky_solve(rhs, upper) on a triangular composite T is two solves
\* in the order the call's upper argument selects: with upper, transpose(T)
\* against rhs and then T against that solution; without, T against rhs and
\* then transpose(T) against that solution.  With upper = False the result x
\* satisfies (T @ T^T) @ x = rhs.
C10_CholeskySolve ==
    Done("cholesky_solve") =>
        LET t      == _transpose_nonbatch(self)
            first  == IF call.upper THEN t ELSE self
            second == IF call.upper THEN self ELSE t
            dense  == DenseKron(self.lazy_tensors)
        IN  /\ Len(trace) = 2
            /\ trace[1].obj = first
            /\ trace[1].rhs = call.rhs
            /\ KPLT_matmul(first, trace[1].ret) = Broadcast(self, call.rhs)
            /\ trace[2].obj = second
            /\ trace[2].rhs = trace[1].ret
            /\ KPLT_matmul(second, trace[2].ret) = trace[1].ret
            /\ result = trace[2].ret
            /\ ~call.upper =>
                  BMatmul(dense, BMatmul(Transpose(dense, -2, -1), result))
                      = Broadcast(self, call.rhs)

C10_Witness ==
    /\ Done("cholesky_solve")
    /\ call.upper
    /\ ~self.upper
    /\ NumFactors(self) = 3
    /\ trace[1].obj # self
    /\ trace[2].obj = self

---------------------------------------------------------------------------
(* Properties of construction and of the memoized derived values (checked  *)
(* under SpecLifecycle).                                                   *)

Constructed == pc \in {"done", "raised"} /\ call.op = "__init__"

\* Some two arguments, adjacent or not, differ in batch shape.
MixedBatch(args) ==
    \E m, n \in 1..Len(args) :
        /\ CanLazify(args[m])
        /\ CanLazify(args[n])
        /\ BatchOf(args[m].tensor.shape) # BatchOf(args[n].tensor.shape)

NonTriangular(args) == \E n \in 1..Len(args) : args[n].cls # "TriangularLazyTensor"

\* Every composite there is: the instance, a returned one, the stored ones.
Existing ==
    {x \in {self}
             \cup (IF call.op \in {"__init__", "cholesky", "inverse"} THEN {result} ELSE {})
             \cup {cache[n] : n \in DOMAIN cache \ {"size"}} : IsComposite(x)}

Valid(obj) ==
    /\ \A m, n \in 1..NumFactors(obj) :
          LT_batch_shape(obj.lazy_tensors[m]) = LT_batch_shape(obj.lazy_tensors[n])
    /\ obj.cls = KPTLT =>
          \A n \in 1..NumFactors(obj) : obj.lazy_tensors[n].cls = "TriangularLazyTensor"

\* C4: a construction from factors of which some two, adjacent or not, differ
\* in batch shape raises an error, and so does the construction of a
\* triangular composite from a list with a non-triangular factor; no instance
\* is created then, and every composite that exists has factors of one batch
\* shape, a triangular one only triangular factors.
C4_ConstructionValidation ==
    /\ Constructed =>
          ((MixedBatch(call.args) \/ (call.cls = KPTLT /\ NonTriangular(call.args)))
              => (pc = "raised" /\ result = RuntimeError /\ self = NoObj))
    /\ pc = "raised" => self = NoObj
    /\ \A obj \in Existing : Valid(obj)

\* A list of three whose first and last factor differ in batch shape while
\* the first pair of neighbours agrees.
C4_Witness ==
    /\ Constructed
    /\ pc = "raised"
    /\ Len(call.args) = 3
    /\ call.cls = KPLT
    /\ \A n \in 1..3 : CanLazify(call.args[n])
    /\ BatchOf(call.args[1].tensor.shape) = BatchOf(call.args[2].tensor.shape)
    /\ BatchOf(call.args[1].tensor.shape) # BatchOf(call.args[3].tensor.shape)

Memoized == {"size", "cholesky", "inverse"}

C5_State ==
    /\ \A name \in Memoized :
          /\ computed[name] <= 1
          /\ computed[name] = 1 <=> IsInCache(name)
    /\ \A name \in Memoized : Done(name) => (IsInCache(name) /\ result = cache[name])

C5_Step ==
    /\ \A name \in DOMAIN cache : IsInCache(name)' /\ cache'[name] = cache[name]
    /\ \A name \in Memoized : computed'[name] >= computed[name]
    /\ \A name \in DOMAIN cache :
          (pc = "idle" /\ Done(name)') => (result' = cache[name] /\ computed' = computed)

\* C5: over any sequence of size(), cholesky(upper) and inverse() calls on one
\* instance each memoized value is computed at most once, every later call
\* returns the value the first call stored, and a stored value is never
\* replaced or cleared.
C5_ComputeOnce == [](C5_State) /\ [][C5_Step]_vars

\* A later cholesky call, asking for the other triangle, with all three values
\* stored: it returns the stored factor.
C5_Witness ==
    /\ Done("cholesky")
    /\ DOMAIN cache = Memoized
    /\ \A name \in Memoized : computed[name] = 1
    /\ call.upper
    /\ result = cache["cholesky"]
    /\ ~result.upper

\* C6: every call cholesky(upper), in any sequence of such calls on one
\* composite with factors F_1..F_k, returns a triangular composite of k
\* factors in the same order whose i-th factor is the Cholesky factor of F_i
\* for the requested upper and whose flag is the requested upper.
C6_CholeskyAsRequested ==
    Done("cholesky") =>
        /\ result.cls = KPTLT
        /\ NumFactors(result) = NumFactors(self)
        /\ \A n \in 1..NumFactors(self) :
              result.lazy_tensors[n] = LT_cholesky(self.lazy_tensors[n], call.upper)
        /\ result.upper = call.upper

\* The right-hand sides of the round trip through a composite.
RoundTripRhs(this) ==
    MatrixRhs(Cols(this))
        \cup (IF BatchOf(_size(this)) = <<>> THEN AnyRhs(Cols(this)) ELSE {})

\* C7: inverse() returns a composite of the same kind with as many factors in
\* the same order, factor i being the inverse of F_i, a triangular one with
\* the upper flag of the original; inverse().matmul(composite.matmul(v)) = v
\* for every right-hand side v.
C7_Inverse ==
    Done("inverse") =>
        /\ result.cls = self.cls
        /\ NumFactors(result) = NumFactors(self)
        /\ \A n \in 1..NumFactors(self) :
              result.lazy_tensors[n] = LT_inverse(self.lazy_tensors[n])
        /\ self.cls = KPTLT => result.upper = self.upper
        /\ \A v \in RoundTripRhs(self) :
              KPLT_matmul(result, KPLT_matmul(self, v))
                  = IF Ndim(v) = 1 THEN v ELSE Broadcast(self, v)

C7_Witness ==
    /\ Done("inverse")
    /\ self.cls = KPTLT
    /\ self.upper
    /\ result.upper
    /\ NumFactors(self) = 3
    /\ result # self

====
